---- MODULE Spec2Model ----
(***************************************************************************)
(* Model of the generic digital watch face                                 *)
(* (faces/generic-digital-face/face.py): the Face object, the toolkit      *)
(* surface it draws on, the font heap, the event queue of its base class   *)
(* and the persisted configuration record.                                 *)
(*                                                                         *)
(* Text is a sequence of one-character strings, so that str.replace, the   *)
(* number formats and the sort of the face names are computed and not      *)
(* assumed.                                                                *)
(***************************************************************************)
EXTENDS Integers, Sequences, FiniteSets, TLC

\* Python's None where a string is expected (a setting, a direction)
None == "None"

\* None where a name is expected: no face name, no font name
NoName == <<>>

\* None where a font is expected
NoFont == [path |-> <<>>, n |-> 0]

\* The battery reading of a device whose PMU module is None
NoPmu == -1

\* ------------------------------------------------------------ constants
EVENT_LOAD_FACE == 1
EVENT_FACE_TICK == 2
EVENT_CLEANUP == 3

MARGIN_PERCENT == 20

\* Width of the screen in pixels (the 240x240 panel of the watch).
WIDTH == 240

\* "S:fonts/"
FONTS_PATH == <<"S", ":", "f", "o", "n", "t", "s", "/">>

WEEK_DAYS ==
    << <<"M", "o", "n", "d", "a", "y">>,
       <<"T", "u", "e", "s", "d", "a", "y">>,
       <<"W", "e", "d", "n", "e", "s", "d", "a", "y">>,
       <<"T", "h", "u", "r", "s", "d", "a", "y">>,
       <<"F", "r", "i", "d", "a", "y">>,
       <<"S", "a", "t", "u", "r", "d", "a", "y">>,
       <<"S", "u", "n", "d", "a", "y">> >>

WEEK_DAYS_SHORT ==
    << <<"M", "O", "N">>,
       <<"T", "U", "E">>,
       <<"W", "E", "D">>,
       <<"T", "H", "U">>,
       <<"F", "R", "I">>,
       <<"S", "A", "T">>,
       <<"S", "U", "N">> >>

MONTHS ==
    << <<"J", "a", "n", "u", "a", "r", "y">>,
       <<"F", "e", "b", "r", "u", "a", "r", "y">>,
       <<"M", "a", "r", "c", "h">>,
       <<"A", "p", "r", "i", "l">>,
       <<"M", "a", "y">>,
       <<"J", "u", "n", "e">>,
       <<"J", "u", "l", "y">>,
       <<"A", "u", "g", "u", "s", "t">>,
       <<"S", "e", "p", "t", "e", "m", "b", "e", "r">>,
       <<"O", "c", "t", "o", "b", "e", "r">>,
       <<"N", "o", "v", "e", "m", "b", "e", "r">>,
       <<"D", "e", "c", "e", "m", "b", "e", "r">> >>

MONTHS_SHORT ==
    << <<"J", "A", "N">>,
       <<"F", "E", "B">>,
       <<"M", "A", "R">>,
       <<"A", "P", "R">>,
       <<"M", "A", "Y">>,
       <<"J", "U", "N">>,
       <<"J", "U", "L">>,
       <<"A", "U", "G">>,
       <<"S", "E", "P">>,
       <<"O", "C", "T">>,
       <<"N", "O", "V">>,
       <<"D", "E", "C">> >>

PlaceholderKeys ==
    << <<"{", "Y", "Y", "Y", "Y", "}">>,
       <<"{", "M", "M", "}">>,
       <<"{", "D", "D", "}">>,
       <<"{", "H", "H", "}">>,
       <<"{", "m", "m", "}">>,
       <<"{", "s", "s", "}">>,
       <<"{", "d", "a", "y", "}">>,
       <<"{", "d", "a", "y", "_", "s", "h", "o", "r", "t", "}">>,
       <<"{", "m", "o", "n", "t", "h", "}">>,
       <<"{", "m", "o", "n", "t", "h", "_", "s", "h", "o", "r", "t", "}">>,
       <<"{", "b", "a", "t", "t", "e", "r", "y", "_", "p", "e", "r", "c", "e", "n", "t", "}">> >>

\* ------------------------------------------------------------ bounds
\* Most events waiting in the queue of the base class.
MaxQueue == 4

\* Most pieces (tokens and literal fragments) a generated label text is made of.
MaxPieces == 2

\* Most files under the search path of the font tool.
MaxFiles == 2

\* ------------------------------------------------------------ text
DigitChars == <<"0", "1", "2", "3", "4", "5", "6", "7", "8", "9">>

Letters ==
    {"a", "b", "c", "d", "e", "f", "g", "h", "i", "j", "k", "l", "m",
     "n", "o", "p", "q", "r", "s", "t", "u", "v", "w", "x", "y", "z",
     "A", "B", "C", "D", "E", "F", "G", "H", "I", "J", "K", "L", "M",
     "N", "O", "P", "Q", "R", "S", "T", "U", "V", "W", "X", "Y", "Z"}

isalpha(c) == c \in Letters

isdigit(c) == \E i \in 1..10 : DigitChars[i] = c

\* str(n) for n >= 0
RECURSIVE Str(_)
Str(n) == IF n < 10 THEN <<DigitChars[n + 1]>>
          ELSE Str(n \div 10) \o <<DigitChars[(n % 10) + 1]>>

RECURSIVE ZeroPad(_, _)
ZeroPad(s, width) == IF Len(s) >= width THEN s ELSE ZeroPad(<<"0">> \o s, width)

\* f"{n:0<width>d}" for n >= 0
Fmt0(n, width) == ZeroPad(Str(n), width)

\* key in text, at position i
MatchAt(text, key, i) ==
    /\ i + Len(key) - 1 <= Len(text)
    /\ SubSeq(text, i, i + Len(key) - 1) = key

Contains(text, key) == \E i \in 1..Len(text) : MatchAt(text, key, i)

\* text.replace(key, val): left to right, occurrences do not overlap
RECURSIVE ReplaceFrom(_, _, _, _)
ReplaceFrom(text, key, val, i) ==
    IF i > Len(text) THEN <<>>
    ELSE IF MatchAt(text, key, i)
         THEN val \o ReplaceFrom(text, key, val, i + Len(key))
         ELSE <<text[i]>> \o ReplaceFrom(text, key, val, i + 1)

\* text.replace(key, val, 1): the first occurrence only
RECURSIVE ReplaceFirstFrom(_, _, _, _)
ReplaceFirstFrom(text, key, val, i) ==
    IF i > Len(text) THEN <<>>
    ELSE IF MatchAt(text, key, i)
         THEN val \o SubSeq(text, i + Len(key), Len(text))
         ELSE <<text[i]>> \o ReplaceFirstFrom(text, key, val, i + 1)

replace_first_only(text, key, val) == ReplaceFirstFrom(text, key, val, 1)

Replace(text, key, val) == ReplaceFrom(text, key, val, 1)

\* _PLACEHOLDERS[key](app, time_tuple); battery is app._pmu.get_battery_percent(),
\* NoPmu when app._pmu is None
Transform(k, time_tuple, battery) ==
    CASE k = 1 -> Fmt0(time_tuple[1], 4)
      [] k = 2 -> Fmt0(time_tuple[2], 2)
      [] k = 3 -> Fmt0(time_tuple[3], 2)
      [] k = 4 -> Fmt0(time_tuple[4], 2)
      [] k = 5 -> Fmt0(time_tuple[5], 2)
      [] k = 6 -> Fmt0(time_tuple[6], 2)
      [] k = 7 -> WEEK_DAYS[time_tuple[7] + 1]
      [] k = 8 -> WEEK_DAYS_SHORT[time_tuple[7] + 1]
      [] k = 9 -> MONTHS[time_tuple[2]]
      [] k = 10 -> MONTHS_SHORT[time_tuple[2]]
      [] k = 11 -> IF battery = NoPmu THEN <<>> ELSE Str(battery)

\* the inner loop of _update_labels over _PLACEHOLDERS.items(), from entry k on
RECURSIVE ResolveFrom(_, _, _, _)
ResolveFrom(text, k, time_tuple, battery) ==
    IF k > Len(PlaceholderKeys) THEN text
    ELSE ResolveFrom(
             IF Contains(text, PlaceholderKeys[k])
             THEN Replace(text, PlaceholderKeys[k], Transform(k, time_tuple, battery))
             ELSE text,
             k + 1, time_tuple, battery)

Resolve(text, time_tuple, battery) == ResolveFrom(text, 1, time_tuple, battery)

\* ------------------------------------------------------------ face names
\* The characters of the names, in code point order (the order of str <).
CodeOrder ==
    <<"0", "1", "2", "3", "4", "5", "6", "7", "8", "9", "_",
      "a", "b", "c", "d", "e", "f", "g", "h", "i", "j", "k", "l", "m",
      "n", "o", "p", "q", "r", "s", "t", "u", "v", "w", "x", "y", "z">>

Code(c) == CHOOSE i \in 1..Len(CodeOrder) : CodeOrder[i] = c

\* s < t for two strings
RECURSIVE StrLess(_, _)
StrLess(s, t) ==
    IF t = <<>> THEN FALSE
    ELSE IF s = <<>> THEN TRUE
    ELSE IF s[1] # t[1] THEN Code(s[1]) < Code(t[1])
    ELSE StrLess(Tail(s), Tail(t))

\* names.sort() of the list holding the members of S
RECURSIVE SortNames(_)
SortNames(S) ==
    IF S = {} THEN <<>>
    ELSE LET least == CHOOSE n \in S : \A o \in S \ {n} : StrLess(n, o)
         IN <<least>> \o SortNames(S \ {least})

\* _get_face_names without the test of the first character
get_face_names_unfiltered(dirs) == SortNames(dirs)

\* Face._get_face_names: dirs are the directories of base_path
get_face_names(dirs) ==
    SortNames({face \in dirs : isalpha(face[1]) \/ isdigit(face[1])})

\* ------------------------------------------------------------ face files
FaceA == <<"a">>
FaceB == <<"b">>
FaceC == <<"c">>
FaceD == <<"c", "1">>
FaceE == <<"1", "0">>
Hidden == <<"_", "x">>

Font1 == <<"f", "1">>
Font2 == <<"f", "2">>

\* One entry of "labels" in face.json. is_dict is false for an entry that is
\* not a JSON object (cfg.get then raises AttributeError).
LabelCfg(text, font) == [is_dict |-> TRUE, text |-> text, font |-> font]

NotADict == [is_dict |-> FALSE, text |-> <<>>, font |-> NoName]

\* face.json of every directory: readable is false when open() or ujson.load()
\* raises; has_background and has_labels tell whether the key is present.
NoBackground == [color |-> None, image |-> None]

FaceFile(readable, version, has_background, background, has_labels, labels) ==
    [readable |-> readable, version |-> version,
     has_background |-> has_background, background |-> background,
     has_labels |-> has_labels, labels |-> labels]

FaceFiles ==
    (FaceA :> FaceFile(TRUE, "1", TRUE, [color |-> "#112233", image |-> "bg.png"],
                       TRUE, << LabelCfg(<<"{", "s", "s", "}">>, Font1),
                                LabelCfg(<<"h", "i">>, Font1) >>))
    @@ (FaceB :> FaceFile(TRUE, "1", FALSE, NoBackground, FALSE, <<>>))
    @@ (FaceC :> FaceFile(TRUE, "1", TRUE, [color |-> "#445566", image |-> None],
                          TRUE, << LabelCfg(<<"{", "s", "s", "}">>, Font2),
                                   NotADict,
                                   LabelCfg(<<>>, NoName) >>))
    @@ (FaceD :> FaceFile(TRUE, "2", TRUE, [color |-> "#778899", image |-> None],
                          TRUE, << LabelCfg(<<"{", "H", "H", "}">>, Font1) >>))
    @@ (FaceE :> FaceFile(FALSE, None, FALSE, NoBackground, FALSE, <<>>))
    @@ (Hidden :> FaceFile(FALSE, None, FALSE, NoBackground, FALSE, <<>>))

\* The directory listings the session may be constructed over.
DirSets ==
    { {},
      {FaceB},
      {FaceC, FaceA, FaceB},
      {FaceE, Hidden, FaceC, FaceD} }

\* The stored record: present is false when config_service.load returns None.
NoConfig == [present |-> FALSE, face |-> NoName]

StoredConfig(face) == [present |-> TRUE, face |-> face]

\* The stored record before the session starts.
StoredConfigs == {NoConfig, StoredConfig(FaceB), StoredConfig(<<"z">>)}

\* utime.localtime() samples and battery readings of the ticks.
Times == { <<2023, 1, 2, 3, 4, 5, 0>>, <<2023, 1, 2, 3, 4, 6, 0>> }

Batteries == {100}

\* x coordinates of the taps: both ends of the screen and both sides of each
\* margin boundary.
TapXs == {0, 47, 48, 120, 191, 192, 193, 239}

Directions == {"LEFT", "RIGHT", "TOP", "BOTTOM"}

\* ------------------------------------------------------------ state
VARIABLES
    self,     \* the fields of the Face object
    lv,       \* the toolkit: widgets of the screen, background, font heap
    queue,    \* events published and not yet handled, oldest first
    config,   \* the stored record of generic-digital-face.config
    pc,       \* "constructed", "run" (run awaits the base class), "returned"
              \* (run returned: no faces), "terminated"
    touch,    \* "idle", or "swiping" between a gesture and its tap
    last,     \* the last operation: its name, its input and what it called
    hist,     \* what earlier operations left for the next to be compared with
    tool      \* tools/remove_unused_fonts.py: its variables and the two folders

vars == <<self, lv, queue, config, pc, touch, last, hist, tool>>

EmptyMap == [k \in {} |-> None]

\* self._container: None, the screen, or the id (1, 2, ...) of a widget
NoContainer == -1

Screen == 0

Range(f) == {f[k] : k \in DOMAIN f}

\* What one operation called: events published, handles freed, font_load
\* calls, labels whose set_text was called, texts resolved, clock sampled,
\* names saved, intents raised, whether its except block ran, what
\* image_helper.show did ("none": not called, "shown", "failed"), and whether
\* a font was freed while a widget on the screen had it as its style.
NoLog ==
    [raised |-> FALSE, nav |-> None, exit |-> FALSE, published |-> <<>>,
     freed |-> <<>>, font_loads |-> <<>>, set_text |-> {}, resolved |-> <<>>,
     sampled |-> FALSE, saved |-> <<>>, read_config |-> FALSE,
     caught |-> FALSE, image |-> "none", freed_in_use |-> FALSE]

\* The state an operation works on. exc is true while an exception propagates.
World == [self |-> self, lv |-> lv, queue |-> queue, config |-> config,
          log |-> NoLog, exc |-> FALSE]

\* The font tool not started.
NoTool ==
    [pc |-> "off", font_files |-> <<>>, used_font_files |-> <<>>,
     walk |-> <<>>, walked |-> <<>>, fonts_dir |-> {}]

\* Face.init
init(dirs) ==
    [face_names |-> get_face_names(dirs),
     face_name |-> NoName,
     is_face_loaded |-> FALSE,
     is_font_loading |-> FALSE,
     container |-> NoContainer,
     labels |-> <<>>,
     fonts |-> EmptyMap,
     is_gesture_in_progress |-> FALSE,
     loop_task |-> None]

\* lc: the last two of the loads and cleanups run; clean_runs: cleanups run in
\* a row; ticks: the last two evaluated ticks of the labels now built; dirs:
\* the directories under base_path when the session was constructed; start:
\* the face name run selected; shift: nexts minus previouses since then,
\* modulo the number of faces; built: the face the last load was handled for.
NoHist ==
    [lc |-> <<>>, clean_runs |-> 0, ticks |-> <<>>, dirs |-> {},
     start |-> NoName, shift |-> 0, built |-> NoName]

Init ==
    /\ \E dirs \in DirSets :
          /\ self = init(dirs)
          /\ hist = [NoHist EXCEPT !.dirs = dirs]
    /\ lv = [children |-> EmptyMap, bg_color |-> None, heap |-> {},
             double_free |-> FALSE, bad_access |-> FALSE]
    /\ queue = <<>>
    /\ config \in StoredConfigs
    /\ pc = "constructed"
    /\ touch = "idle"
    /\ last = [op |-> "init", arg |-> None, log |-> NoLog]
    /\ tool = NoTool

\* ------------------------------------------------------------ collaborators
\* FaceBase.publish_event
publish_event(w, event) ==
    [w EXCEPT !.queue = Append(@, event), !.log.published = Append(@, event)]

\* config_service.load / Face._get_last_face_name
get_last_face_name(w) == IF w.config.present THEN w.config.face ELSE NoName

\* Face._set_last_face_name
set_last_face_name(w, face) ==
    [w EXCEPT !.config = StoredConfig(face), !.log.saved = Append(@, face)]

\* font.free()
FontFree(w, font) ==
    [w EXCEPT !.lv.heap = @ \ {font},
              !.lv.double_free = @ \/ font \notin w.lv.heap,
              !.log.freed = Append(@, font),
              !.log.freed_in_use =
                  @ \/ \E id \in DOMAIN w.lv.children : w.lv.children[id].font = font]

\* lv.font_load(path) when it succeeds: a handle no live font has
NewFont(w, path) ==
    LET n == CHOOSE i \in 1..(Cardinality(w.lv.heap) + 1) :
                 /\ [path |-> path, n |-> i] \notin w.lv.heap
                 /\ \A j \in 1..(i - 1) : [path |-> path, n |-> j] \in w.lv.heap
    IN [path |-> path, n |-> n]

\* lv.label(parent) / image_helper.show(parent, ...): the id of the new widget
NewWidget(w) ==
    CHOOSE i \in 1..(Cardinality(DOMAIN w.lv.children) + 1) :
        /\ i \notin DOMAIN w.lv.children
        /\ \A j \in 1..(i - 1) : j \in DOMAIN w.lv.children

\* ------------------------------------------------------------ Face._cleanup
RECURSIVE FreeAll(_, _)
FreeAll(w, fontSet) ==
    IF fontSet = {} THEN w
    ELSE LET font == CHOOSE f \in fontSet : TRUE
         IN FreeAll(FontFree(w, font), fontSet \ {font})

\* _cleanup without self._fonts.clear()
cleanup_keeps_cache(w) ==
    IF w.self.container = NoContainer THEN w
    ELSE LET cleaned == [w EXCEPT !.lv.children = EmptyMap, !.self.labels = <<>>]
         IN FreeAll(cleaned, Range(w.self.fonts))

\* _cleanup that frees the fonts before screen.clean()
cleanup_fonts_first(w) ==
    IF w.self.container = NoContainer THEN w
    ELSE LET freedAll == FreeAll(w, Range(w.self.fonts))
         IN [freedAll EXCEPT !.lv.children = EmptyMap, !.self.labels = <<>>,
                             !.self.fonts = EmptyMap]

cleanup(w) ==
    IF w.self.container = NoContainer THEN w
    ELSE LET cleaned == [w EXCEPT !.lv.children = EmptyMap, !.self.labels = <<>>]
             freedAll == FreeAll(cleaned, Range(w.self.fonts))
         IN [freedAll EXCEPT !.self.fonts = EmptyMap]

\* ------------------------------------------------------------ Face._load_background
\* _load_background without the try around image_helper.show
load_background_no_catch(w, face_config, image_ok) ==
    IF ~face_config.has_background THEN w
    ELSE LET cfg == face_config.background
             coloured == IF cfg.color # None
                         THEN [w EXCEPT !.lv.bg_color = cfg.color]
                         ELSE w
             image == NewWidget(coloured)
         IN IF cfg.image = None THEN coloured
            ELSE IF image_ok
            THEN [coloured EXCEPT
                     !.lv.children = @ @@ (image :>
                         [kind |-> "img", parent |-> Screen,
                          font |-> NoFont, text |-> <<>>]),
                     !.self.container = image,
                     !.log.image = "shown"]
            ELSE [coloured EXCEPT !.log.image = "failed", !.exc = TRUE]

\* image_ok: whether image_helper.show succeeds
load_background(w, face_config, image_ok) ==
    IF ~face_config.has_background THEN w
    ELSE LET cfg == face_config.background
             coloured == IF cfg.color # None
                         THEN [w EXCEPT !.lv.bg_color = cfg.color]
                         ELSE w
             image == NewWidget(coloured)
         IN IF cfg.image = None THEN coloured
            ELSE IF image_ok
            THEN [coloured EXCEPT
                     !.lv.children = @ @@ (image :>
                         [kind |-> "img", parent |-> Screen,
                          font |-> NoFont, text |-> <<>>]),
                     !.self.container = image,
                     !.log.image = "shown"]
            ELSE [coloured EXCEPT !.log.image = "failed"]

\* ------------------------------------------------------------ Face._load_labels
\* the try block without the lookup in self._fonts
label_font_no_cache(w, label, font_name, load_fails) ==
    IF load_fails
    THEN [w EXCEPT !.log.font_loads =
                       Append(@, [path |-> font_name, ok |-> FALSE,
                                  label |-> label])]
    ELSE LET font == NewFont(w, font_name)
         IN [w EXCEPT
                !.log.font_loads = Append(@, [path |-> font_name, ok |-> TRUE,
                                              label |-> label]),
                !.lv.heap = @ \cup {font},
                !.self.fonts = (font_name :> font) @@ @,
                !.lv.children[label].font = font]

\* the font lines of one label without the try around them
label_font_no_catch(w, label, font_name, load_fails) ==
    IF font_name \in DOMAIN w.self.fonts
    THEN [w EXCEPT !.lv.children[label].font = w.self.fonts[font_name]]
    ELSE IF load_fails
         THEN [w EXCEPT !.log.font_loads =
                            Append(@, [path |-> font_name, ok |-> FALSE,
                                       label |-> label]),
                        !.exc = TRUE]
         ELSE LET font == NewFont(w, font_name)
              IN [w EXCEPT
                     !.log.font_loads = Append(@, [path |-> font_name, ok |-> TRUE,
                                                   label |-> label]),
                     !.lv.heap = @ \cup {font},
                     !.self.fonts = @ @@ (font_name :> font),
                     !.lv.children[label].font = font]

\* The try block of one label: the cached font, or a font_load call.
\* load_fails: whether lv.font_load raises if it is called for this label.
\* The log names the label widget each call was made for.
label_font(w, label, font_name, load_fails) ==
    IF font_name \in DOMAIN w.self.fonts
    THEN [w EXCEPT !.lv.children[label].font = w.self.fonts[font_name]]
    ELSE IF load_fails
         THEN [w EXCEPT !.log.font_loads =
                            Append(@, [path |-> font_name, ok |-> FALSE,
                                       label |-> label])]
         ELSE LET font == NewFont(w, font_name)
              IN [w EXCEPT
                     !.log.font_loads = Append(@, [path |-> font_name, ok |-> TRUE,
                                                   label |-> label]),
                     !.lv.heap = @ \cup {font},
                     !.self.fonts = @ @@ (font_name :> font),
                     !.lv.children[label].font = font]

\* The body of the loop over face_config["labels"] for one entry.
build_label(w, cfg, load_fails) ==
    IF ~cfg.is_dict THEN [w EXCEPT !.exc = TRUE]
    ELSE LET label == NewWidget(w)
             created == [w EXCEPT !.lv.children = @ @@ (label :>
                            [kind |-> "label", parent |-> w.self.container,
                             font |-> NoFont, text |-> <<>>])]
             styled == IF cfg.font # NoName
                       THEN label_font(created, label, FONTS_PATH \o cfg.font,
                                       load_fails)
                       ELSE created
         IN IF styled.exc THEN styled
            ELSE [styled EXCEPT !.self.labels =
                     Append(@, [lv_label |-> label, text |-> cfg.text,
                                value |-> <<>>])]

\* font_fails: the positions in the list whose font_load call, if made, raises
RECURSIVE labels_loop(_, _, _, _)
labels_loop(w, labels, i, font_fails) ==
    IF i > Len(labels) \/ w.exc THEN w
    ELSE labels_loop(build_label(w, labels[i], i \in font_fails),
                     labels, i + 1, font_fails)

load_labels(w, face_config, font_fails) ==
    IF ~face_config.has_labels THEN w
    ELSE LET loading == [w EXCEPT !.self.is_font_loading = TRUE]
             built == labels_loop(loading, face_config.labels, 1, font_fails)
         IN IF built.exc THEN built
            ELSE [built EXCEPT !.self.is_font_loading = FALSE]

\* ------------------------------------------------------------ Face._load_face
\* _load_face without the return after the version warning
load_face_any_version(w, image_ok, font_fails) ==
    LET started == [w EXCEPT !.self.is_face_loaded = FALSE,
                             !.self.container = Screen]
        face_config == FaceFiles[w.self.face_name]
    IN IF ~face_config.readable THEN [started EXCEPT !.log.caught = TRUE]
       ELSE LET background == load_background(started, face_config, image_ok)
                labelled == IF background.exc THEN background
                            ELSE load_labels(background, face_config, font_fails)
            IN IF labelled.exc
               THEN [labelled EXCEPT !.exc = FALSE, !.log.caught = TRUE]
               ELSE [labelled EXCEPT !.self.is_face_loaded = TRUE]

\* _load_face without its try/except
load_face_no_catch(w, image_ok, font_fails) ==
    LET started == [w EXCEPT !.self.is_face_loaded = FALSE,
                             !.self.container = Screen]
        face_config == FaceFiles[w.self.face_name]
    IN IF ~face_config.readable THEN [started EXCEPT !.exc = TRUE]
       ELSE IF face_config.version # "1" THEN started
       ELSE LET background == load_background(started, face_config, image_ok)
                labelled == IF background.exc THEN background
                            ELSE load_labels(background, face_config, font_fails)
            IN IF labelled.exc
               THEN labelled
               ELSE [labelled EXCEPT !.self.is_face_loaded = TRUE]

\* The except block catches what open, ujson.load, _load_background and
\* _load_labels raise.
load_face(w, image_ok, font_fails) ==
    LET started == [w EXCEPT !.self.is_face_loaded = FALSE,
                             !.self.container = Screen]
        face_config == FaceFiles[w.self.face_name]
    IN IF ~face_config.readable THEN [started EXCEPT !.log.caught = TRUE]
       ELSE IF face_config.version # "1" THEN started
       ELSE LET background == load_background(started, face_config, image_ok)
                labelled == IF background.exc THEN background
                            ELSE load_labels(background, face_config, font_fails)
            IN IF labelled.exc
               THEN [labelled EXCEPT !.exc = FALSE, !.log.caught = TRUE]
               ELSE [labelled EXCEPT !.self.is_face_loaded = TRUE]

\* ------------------------------------------------------------ Face._face_tick
\* the loop body without label["value"] = text
update_label_no_cache(w, i, time_tuple, battery) ==
    LET label == w.self.labels[i]
        text == Resolve(label.text, time_tuple, battery)
        seen == [w EXCEPT !.log.resolved = Append(@, text)]
    IN IF text # label.value
       THEN [seen EXCEPT
                !.log.set_text = @ \cup {i},
                !.lv.children = IF label.lv_label \in DOMAIN @
                                THEN [@ EXCEPT ![label.lv_label].text = text]
                                ELSE @]
       ELSE seen

\* The body of the loop of _update_labels for the label at position i.
update_label(w, i, time_tuple, battery) ==
    LET label == w.self.labels[i]
        text == Resolve(label.text, time_tuple, battery)
        seen == [w EXCEPT !.log.resolved = Append(@, text)]
    IN IF text # label.value
       THEN [seen EXCEPT
                !.self.labels[i].value = text,
                !.log.set_text = @ \cup {i},
                !.lv.bad_access = @ \/ label.lv_label \notin DOMAIN w.lv.children,
                !.lv.children = IF label.lv_label \in DOMAIN @
                                THEN [@ EXCEPT ![label.lv_label].text = text]
                                ELSE @]
       ELSE seen

RECURSIVE update_loop(_, _, _, _)
update_loop(w, i, time_tuple, battery) ==
    IF i > Len(w.self.labels) THEN w
    ELSE update_loop(update_label(w, i, time_tuple, battery), i + 1,
                     time_tuple, battery)

\* _update_labels without the check of _is_font_loading
update_labels_no_flag_check(w, time_tuple, battery) ==
    update_loop([w EXCEPT !.log.sampled = TRUE, !.log.resolved = <<>>],
                1, time_tuple, battery)

update_labels(w, time_tuple, battery) ==
    IF w.self.is_font_loading THEN w
    ELSE update_loop([w EXCEPT !.log.sampled = TRUE, !.log.resolved = <<>>],
                     1, time_tuple, battery)

face_tick(w, time_tuple, battery) ==
    IF w.self.is_face_loaded THEN update_labels(w, time_tuple, battery) ELSE w

\* ------------------------------------------------------------ navigation
\* name in names
Listed(names, name) == \E i \in 1..Len(names) : names[i] = name

\* self._face_names.index(name), counted from 0, for a name in the list (index
\* raises ValueError for any other)
index(names, name) == (CHOOSE i \in 1..Len(names) : names[i] = name) - 1

\* _previous_face with index 0 kept at 0
previous_face_no_wrap(w) ==
    IF ~Listed(w.self.face_names, w.self.face_name)
    THEN [w EXCEPT !.exc = TRUE]
    ELSE
    LET found == index(w.self.face_names, w.self.face_name) - 1
        wrapped == IF found < 0 THEN 0 ELSE found
        named == [w EXCEPT !.self.face_name = w.self.face_names[wrapped + 1],
                           !.log.nav = "previous"]
    IN publish_event(publish_event(named, EVENT_CLEANUP), EVENT_LOAD_FACE)

previous_face(w) ==
    IF ~Listed(w.self.face_names, w.self.face_name)
    THEN [w EXCEPT !.exc = TRUE]
    ELSE LET found == index(w.self.face_names, w.self.face_name) - 1
             wrapped == IF found < 0 THEN Len(w.self.face_names) - 1 ELSE found
             named == [w EXCEPT !.self.face_name = w.self.face_names[wrapped + 1],
                                !.log.nav = "previous"]
         IN publish_event(publish_event(named, EVENT_CLEANUP), EVENT_LOAD_FACE)

\* _next_face that also saves the new name
next_face_saves(w) ==
    IF ~Listed(w.self.face_names, w.self.face_name)
    THEN [w EXCEPT !.exc = TRUE]
    ELSE LET found == index(w.self.face_names, w.self.face_name) + 1
             wrapped == IF found >= Len(w.self.face_names) THEN 0 ELSE found
             named == [w EXCEPT !.self.face_name = w.self.face_names[wrapped + 1],
                                !.log.nav = "next"]
             saved == set_last_face_name(named, named.self.face_name)
         IN publish_event(publish_event(saved, EVENT_CLEANUP), EVENT_LOAD_FACE)

\* _next_face with the two publish_event calls exchanged
next_face_load_first(w) ==
    IF ~Listed(w.self.face_names, w.self.face_name)
    THEN [w EXCEPT !.exc = TRUE]
    ELSE
    LET found == index(w.self.face_names, w.self.face_name) + 1
        wrapped == IF found >= Len(w.self.face_names) THEN 0 ELSE found
        named == [w EXCEPT !.self.face_name = w.self.face_names[wrapped + 1],
                           !.log.nav = "next"]
    IN publish_event(publish_event(named, EVENT_LOAD_FACE), EVENT_CLEANUP)

next_face(w) ==
    IF ~Listed(w.self.face_names, w.self.face_name)
    THEN [w EXCEPT !.exc = TRUE]
    ELSE LET found == index(w.self.face_names, w.self.face_name) + 1
             wrapped == IF found >= Len(w.self.face_names) THEN 0 ELSE found
             named == [w EXCEPT !.self.face_name = w.self.face_names[wrapped + 1],
                                !.log.nav = "next"]
         IN publish_event(publish_event(named, EVENT_CLEANUP), EVENT_LOAD_FACE)

\* ------------------------------------------------------------ Face._click_cb
\* int(w * _MARGIN_PERCENT / 100)
margin(width) == (width * MARGIN_PERCENT) \div 100

\* _click_cb that returns without clearing _is_gesture_in_progress
click_cb_keeps_flag(w, px) ==
    IF w.self.is_gesture_in_progress
    THEN w
    ELSE LET m == margin(WIDTH)
         IN IF px < m THEN previous_face(w)
            ELSE IF px > WIDTH - m THEN next_face(w)
            ELSE [w EXCEPT !.log.exit = TRUE]

\* px: p.x, the x coordinate of the touch point
click_cb(w, px) ==
    IF w.self.is_gesture_in_progress
    THEN [w EXCEPT !.self.is_gesture_in_progress = FALSE]
    ELSE LET m == margin(WIDTH)
         IN IF px < m THEN previous_face(w)
            ELSE IF px > WIDTH - m THEN next_face(w)
            ELSE [w EXCEPT !.log.exit = TRUE]

\* ------------------------------------------------------------ Face._gesture_cb
\* _gesture_cb with the two directions exchanged
gesture_cb_swapped(w, direction) ==
    LET flagged == [w EXCEPT !.self.is_gesture_in_progress = TRUE]
    IN IF direction = "RIGHT" THEN next_face(flagged)
       ELSE IF direction = "LEFT" THEN previous_face(flagged)
       ELSE flagged

gesture_cb(w, direction) ==
    LET flagged == [w EXCEPT !.self.is_gesture_in_progress = TRUE]
    IN IF direction = "LEFT" THEN next_face(flagged)
       ELSE IF direction = "RIGHT" THEN previous_face(flagged)
       ELSE flagged

\* ------------------------------------------------------------ Face.run
\* run that keeps the stored name whether it is in the catalog or not
run_no_fallback(w) ==
    IF Len(w.self.face_names) = 0 THEN w
    ELSE LET read == [w EXCEPT !.self.face_name = get_last_face_name(w),
                               !.log.read_config = TRUE]
             published == publish_event(read, EVENT_LOAD_FACE)
         IN [published EXCEPT !.self.loop_task = "running"]

\* run that reads the stored name before it looks at the catalog
run_reads_first(w) ==
    LET read == [w EXCEPT !.self.face_name = get_last_face_name(w),
                          !.log.read_config = TRUE]
    IN IF Len(w.self.face_names) = 0 THEN read
       ELSE LET named == IF ~Listed(read.self.face_names, read.self.face_name)
                         THEN set_last_face_name(
                                  [read EXCEPT !.self.face_name =
                                                   read.self.face_names[1]],
                                  read.self.face_names[1])
                         ELSE read
                published == publish_event(named, EVENT_LOAD_FACE)
            IN [published EXCEPT !.self.loop_task = "running"]

run(w) ==
    IF Len(w.self.face_names) = 0 THEN w
    ELSE LET read == [w EXCEPT !.self.face_name = get_last_face_name(w),
                               !.log.read_config = TRUE]
             named == IF ~Listed(read.self.face_names, read.self.face_name)
                      THEN set_last_face_name(
                               [read EXCEPT !.self.face_name = read.self.face_names[1]],
                               read.self.face_names[1])
                      ELSE read
             published == publish_event(named, EVENT_LOAD_FACE)
         IN [published EXCEPT !.self.loop_task = "running"]

\* ------------------------------------------------------------ Face.terminate
\* terminate without the call of _cleanup
terminate_no_cleanup(w) ==
    IF w.self.loop_task = None THEN [w EXCEPT !.exc = TRUE]
    ELSE LET cancelled == [w EXCEPT !.self.loop_task = "cancelled",
                                    !.log.read_config = TRUE]
         IN IF cancelled.self.face_name # get_last_face_name(cancelled)
            THEN set_last_face_name(cancelled, cancelled.self.face_name)
            ELSE cancelled

terminate(w) ==
    IF w.self.loop_task = None THEN [w EXCEPT !.exc = TRUE]
    ELSE LET cancelled == [w EXCEPT !.self.loop_task = "cancelled",
                                    !.log.read_config = TRUE]
             saved == IF cancelled.self.face_name # get_last_face_name(cancelled)
                      THEN set_last_face_name(cancelled, cancelled.self.face_name)
                      ELSE cancelled
         IN cleanup(saved)

\* ------------------------------------------------------------ actions
\* The font tool is another program: no operation of the face touches it.
Commit(w) ==
    /\ self' = w.self
    /\ lv' = w.lv
    /\ queue' = w.queue
    /\ config' = w.config
    /\ tool' = tool

Done(op, arg, w) == [op |-> op, arg |-> arg, log |-> [w.log EXCEPT !.raised = w.exc]]

\* the last two entries of s
LastTwo(s) == IF Len(s) <= 2 THEN s ELSE SubSeq(s, Len(s) - 1, Len(s))

\* The event at the head of the queue is handed to its subscriber.
Delivered(event) ==
    /\ pc = "run"
    /\ queue # <<>>
    /\ Head(queue) = event

Taken == [World EXCEPT !.queue = Tail(queue)]

\* The history after an input handler: a navigation moves the shift by one.
Navigated(w) ==
    [hist EXCEPT !.shift =
        IF w.log.nav = "next" THEN (@ + 1) % Len(self.face_names)
        ELSE IF w.log.nav = "previous"
        THEN (@ + Len(self.face_names) - 1) % Len(self.face_names)
        ELSE @]

Run ==
    /\ pc = "constructed"
    /\ LET w == run(World)
       IN /\ Commit(w)
          /\ last' = Done("run", None, w)
          /\ hist' = [hist EXCEPT !.start = w.self.face_name]
    /\ pc' = IF Len(self.face_names) = 0 THEN "returned" ELSE "run"
    /\ UNCHANGED touch

\* Face._inner_loop: one round of the loop. The task runs from its creation
\* in run until it is cancelled.
InnerLoop ==
    /\ pc \in {"run", "terminated"}
    /\ self.loop_task = "running"
    /\ Len(queue) < MaxQueue
    /\ LET w == publish_event(World, EVENT_FACE_TICK)
       IN /\ Commit(w)
          /\ last' = Done("inner_loop", None, w)
    /\ UNCHANGED <<pc, touch, hist>>

HandleLoadFace ==
    /\ Delivered(EVENT_LOAD_FACE)
    /\ \E image_ok \in BOOLEAN :
       \E font_fails \in SUBSET (1..Len(FaceFiles[self.face_name].labels)) :
          LET w == load_face(Taken, image_ok, font_fails)
          IN /\ Commit(w)
             /\ last' = Done("load", self.face_name, w)
    /\ hist' = [hist EXCEPT !.lc = LastTwo(Append(@, "load")),
                            !.clean_runs = 0,
                            !.ticks = <<>>,
                            !.built = self.face_name]
    /\ UNCHANGED <<pc, touch>>

HandleFaceTick ==
    /\ Delivered(EVENT_FACE_TICK)
    /\ \E time_tuple \in Times :
       \E battery \in Batteries :
          LET w == face_tick(Taken, time_tuple, battery)
          IN /\ Commit(w)
             /\ last' = Done("tick", [font_loading |-> self.is_font_loading], w)
             /\ hist' = [hist EXCEPT
                            !.clean_runs = 0,
                            !.ticks = IF w.log.sampled
                                      THEN LastTwo(Append(@,
                                               [resolved |-> w.log.resolved,
                                                set_text |-> w.log.set_text]))
                                      ELSE @]
    /\ UNCHANGED <<pc, touch>>

HandleCleanup ==
    /\ Delivered(EVENT_CLEANUP)
    /\ LET w == cleanup(Taken)
       IN /\ Commit(w)
          /\ last' = Done("cleanup", None, w)
    /\ hist' = [hist EXCEPT !.lc = LastTwo(Append(@, "cleanup")),
                            !.clean_runs = IF @ < 2 THEN @ + 1 ELSE @,
                            !.ticks = <<>>]
    /\ UNCHANGED <<pc, touch>>

\* Room in the queue for the two events of a navigation.
CanNavigate == Len(queue) + 2 <= MaxQueue

\* The toolkit raises CLICKED for a touch that made no gesture.
Tap ==
    /\ pc = "run"
    /\ touch = "idle"
    /\ CanNavigate
    /\ \E px \in TapXs :
          LET w == click_cb(World, px)
          IN /\ Commit(w)
             /\ last' = Done("click", [x |-> px, swiped |-> FALSE,
                                      flagged |-> self.is_gesture_in_progress], w)
             /\ hist' = Navigated(w)
    /\ UNCHANGED <<pc, touch>>

\* The toolkit raises GESTURE while the finger is still down.
Swipe ==
    /\ pc = "run"
    /\ touch = "idle"
    /\ CanNavigate
    /\ \E direction \in Directions :
          LET w == gesture_cb(World, direction)
          IN /\ Commit(w)
             /\ last' = Done("gesture", direction, w)
             /\ hist' = Navigated(w)
    /\ touch' = "swiping"
    /\ UNCHANGED pc

\* The toolkit raises CLICKED when the finger of a swipe is lifted.
SwipeRelease ==
    /\ pc = "run"
    /\ touch = "swiping"
    /\ CanNavigate
    /\ \E px \in TapXs :
          LET w == click_cb(World, px)
          IN /\ Commit(w)
             /\ last' = Done("click", [x |-> px, swiped |-> TRUE,
                                      flagged |-> self.is_gesture_in_progress], w)
             /\ hist' = Navigated(w)
    /\ touch' = "idle"
    /\ UNCHANGED pc

\* terminate may be called on a session that was constructed, whether run
\* has been called, has returned, or not.
Terminate ==
    /\ pc \in {"constructed", "run", "returned"}
    /\ LET w == terminate(World)
       IN /\ Commit(w)
          /\ last' = Done("terminate", None, w)
          /\ hist' = IF w.exc THEN hist
                     ELSE [hist EXCEPT !.lc = LastTwo(Append(@, "cleanup")),
                                       !.clean_runs = IF @ < 2 THEN @ + 1 ELSE @,
                                       !.ticks = <<>>]
    /\ pc' = "terminated"
    /\ UNCHANGED touch

Next ==
    \/ Run
    \/ InnerLoop
    \/ HandleLoadFace
    \/ HandleFaceTick
    \/ HandleCleanup
    \/ Tap
    \/ Swipe
    \/ SwipeRelease
    \/ Terminate

Spec == Init /\ [][Next]_vars

\* ------------------------------------------------------------ font tool
\* tools/remove_unused_fonts.py
search_file_extensions == { <<"p", "y">>, <<"j", "s", "o", "n">> }

\* name.endswith(suffix)
endswith(name, suffix) ==
    /\ Len(suffix) <= Len(name)
    /\ SubSeq(name, Len(name) - Len(suffix) + 1, Len(name)) = suffix

Largest(S) == CHOOSE i \in S : \A j \in S : j <= i

\* file_name.rsplit(".", 2): at most two splits, from the right
rsplit2(file_name) ==
    LET dots == {i \in 1..Len(file_name) : file_name[i] = "."}
    IN IF dots = {} THEN <<file_name>>
       ELSE LET right == Largest(dots)
                tail == SubSeq(file_name, right + 1, Len(file_name))
            IN IF dots = {right}
               THEN <<SubSeq(file_name, 1, right - 1), tail>>
               ELSE LET left == Largest(dots \ {right})
                    IN <<SubSeq(file_name, 1, left - 1),
                         SubSeq(file_name, left + 1, right - 1),
                         tail>>

\* The test that decides whether a file is read: parts[1] of the code is the
\* second part.
Searched(file_name) ==
    LET parts == rsplit2(file_name)
    IN ~(Len(parts) < 2 \/ parts[2] \notin search_file_extensions)

FontSuffix == <<".", "f", "o", "n", "t">>

FontFileA == <<"a">> \o FontSuffix

FontFileB == <<"b">> \o FontSuffix

\* os.listdir(fonts_dir): two fonts and a file that is no font
FontsDir == {FontFileA, FontFileB, <<"c", ".", "t", "x", "t">>}

\* Names of files under the search path: "a.json", "b.py", "a.b.json",
\* "a.b.c.py", "b.py.c", "a.txt", "json"
FileNames ==
    { <<"a", ".", "j", "s", "o", "n">>,
      <<"b", ".", "p", "y">>,
      <<"a", ".", "b", ".", "j", "s", "o", "n">>,
      <<"a", ".", "b", ".", "c", ".", "p", "y">>,
      <<"b", ".", "p", "y", ".", "c">>,
      <<"a", ".", "t", "x", "t">>,
      <<"j", "s", "o", "n">> }

\* What a file holds: nothing, or text around the name of a font
FileContents ==
    { <<>>,
      <<"\"">> \o FontFileA \o <<"\"">>,
      <<"S", ":">> \o FontFileB }

SearchFiles == [file_name : FileNames, file_content : FileContents]

\* The fonts of a listing, in each order os.listdir may give them
Listings(names) ==
    {l \in UNION {[1..n -> names] : n \in {Cardinality(names)}} :
        \A i, j \in 1..Len(l) : i # j => l[i] # l[j]}

\* The module up to the loop: font_files collected, nothing walked yet.
InitTool ==
    /\ \E files \in UNION {[1..n -> SearchFiles] : n \in 0..MaxFiles} :
       \E font_files \in Listings({name \in FontsDir : endswith(name, FontSuffix)}) :
          tool = [pc |-> "walk", font_files |-> font_files,
                  used_font_files |-> <<>>, walk |-> files, walked |-> files,
                  fonts_dir |-> FontsDir]
    /\ self = init({})
    /\ lv = [children |-> EmptyMap, bg_color |-> None, heap |-> {},
             double_free |-> FALSE, bad_access |-> FALSE]
    /\ queue = <<>>
    /\ config = NoConfig
    /\ pc = "constructed"
    /\ touch = "idle"
    /\ last = [op |-> "init", arg |-> None, log |-> NoLog]
    /\ hist = NoHist

\* The body of the loop over the files of os.walk for one file.
visit_file(t, file) ==
    IF ~Searched(file.file_name) THEN t
    ELSE LET found == SelectSeq(t.font_files,
                                LAMBDA font_file : Contains(file.file_content, font_file))
             used == t.used_font_files \o found
         IN [t EXCEPT
                !.used_font_files = used,
                !.font_files = SelectSeq(@, LAMBDA font_file :
                                   \A i \in 1..Len(used) : used[i] # font_file)]

WalkFile ==
    /\ tool.pc = "walk"
    /\ tool.walk # <<>>
    /\ tool' = [visit_file(tool, Head(tool.walk)) EXCEPT !.walk = Tail(tool.walk)]
    /\ UNCHANGED <<self, lv, queue, config, pc, touch, last, hist>>

\* The last loop: os.remove for every name left in font_files.
RemoveUnused ==
    /\ tool.pc = "walk"
    /\ tool.walk = <<>>
    /\ tool' = [tool EXCEPT
                   !.pc = "done",
                   !.fonts_dir = @ \ {tool.font_files[i] : i \in 1..Len(tool.font_files)}]
    /\ UNCHANGED <<self, lv, queue, config, pc, touch, last, hist>>

NextTool == WalkFile \/ RemoveUnused

SpecTool == InitTool /\ [][NextTool]_vars

\* ------------------------------------------------------------ label texts
\* The "text" of a label in face.json is any string. The generated texts are
\* made of the placeholder keys and of fragments that, put together, nest or
\* complete a key.
Fragments ==
    { <<"-">>, <<"{", "M">>, <<"M", "}">> }

Pieces == {PlaceholderKeys[k] : k \in 1..Len(PlaceholderKeys)} \cup Fragments

RECURSIVE Concat(_)
Concat(parts) == IF parts = <<>> THEN <<>> ELSE Head(parts) \o Concat(Tail(parts))

\* "{YYYY}-{MM}-{DD}"
DateText ==
    <<"{", "Y", "Y", "Y", "Y", "}", "-", "{", "M", "M", "}", "-", "{", "D", "D", "}">>

\* "{M{battery_percent}M}"
NestedText == <<"{", "M">> \o PlaceholderKeys[11] \o <<"M", "}">>

LabelTexts ==
    {DateText, NestedText}
        \cup {Concat(parts) : parts \in UNION {[1..n -> Pieces] : n \in 0..MaxPieces}}

\* utime.localtime() samples: first and last month and weekday, hour 0
EvalTimes == { <<2023, 1, 2, 3, 4, 5, 0>>, <<1999, 12, 31, 0, 59, 10, 6>> }

EvalBatteries == {NoPmu, 7, 100}

\* The session after the load of a descriptor with one label of the given
\* text and no font.
InitEval ==
    /\ \E text \in LabelTexts :
          LET started == [self |-> [init({FaceA}) EXCEPT !.face_name = FaceA,
                                                         !.container = Screen,
                                                         !.loop_task = "running"],
                          lv |-> [children |-> EmptyMap, bg_color |-> None,
                                  heap |-> {}, double_free |-> FALSE,
                                  bad_access |-> FALSE],
                          queue |-> <<>>, config |-> StoredConfig(FaceA),
                          log |-> NoLog, exc |-> FALSE]
              built == build_label(started, LabelCfg(text, NoName), FALSE)
          IN /\ self = [built.self EXCEPT !.is_face_loaded = TRUE]
             /\ lv = built.lv
    /\ queue = <<>>
    /\ config = StoredConfig(FaceA)
    /\ pc = "run"
    /\ touch = "idle"
    /\ last = [op |-> "init", arg |-> None, log |-> NoLog]
    /\ hist = [NoHist EXCEPT !.dirs = {FaceA}]
    /\ tool = NoTool

\* Face._face_tick called with a clock sample and a battery reading
Evaluate ==
    /\ pc = "run"
    /\ \E time_tuple \in EvalTimes :
       \E battery \in EvalBatteries :
          LET w == face_tick(World, time_tuple, battery)
          IN /\ Commit(w)
             /\ last' = Done("evaluate",
                             [time_tuple |-> time_tuple, battery |-> battery], w)
    /\ UNCHANGED <<pc, touch, hist>>

NextEval == Evaluate

SpecEval == InitEval /\ [][NextEval]_vars

TypeOK ==
    /\ pc \in {"constructed", "run", "returned", "terminated"}
    /\ touch \in {"idle", "swiping"}
    /\ Len(queue) <= MaxQueue
    /\ \A i \in 1..Len(queue) :
          queue[i] \in {EVENT_LOAD_FACE, EVENT_FACE_TICK, EVENT_CLEANUP}

\* ------------------------------------------------------------ properties
LabelWidgets == {i \in DOMAIN lv.children : lv.children[i].kind = "label"}

\* The position the code's index arithmetic is claimed to reach, from 0.
Shifted(names, name, by) == names[((index(names, name) + by) % Len(names)) + 1]

\* C1: when the load handler has returned for a descriptor of version "1",
\* either the background and every label of the descriptor exist and the face
\* is loaded, or no label widget and no label instance exists.
C1_LoadAllOrNothing ==
    (/\ last.op = "load"
     /\ FaceFiles[last.arg].readable
     /\ FaceFiles[last.arg].version = "1")
    => LET face_config == FaceFiles[last.arg]
       IN \/ /\ self.is_face_loaded
             /\ Len(self.labels) = Len(face_config.labels)
             /\ Cardinality(LabelWidgets) = Len(face_config.labels)
             /\ face_config.background.color # None
                    => lv.bg_color = face_config.background.color
          \/ /\ self.labels = <<>>
             /\ LabelWidgets = {}

\* The step of a navigation appends Cleanup and then LoadFace to the queue.
C2_Published ==
    last'.log.nav # None
    => /\ last'.log.published = <<EVENT_CLEANUP, EVENT_LOAD_FACE>>
       /\ queue' = queue \o <<EVENT_CLEANUP, EVENT_LOAD_FACE>>

\* Of the loads and cleanups run, the one before a load is a cleanup.
C2_Ordered ==
    (Len(hist.lc) = 2 /\ hist.lc[2] = "load") => hist.lc[1] = "cleanup"

\* C2: a navigation publishes Cleanup and then LoadFace, and every load run
\* after the first one follows a cleanup that ran after the load before it;
\* each handler runs to its end as one step.
C2_CleanupBeforeLoad == [](C2_Ordered) /\ [][C2_Published]_vars

C2_Witness ==
    /\ last.op = "load"
    /\ hist.lc = <<"cleanup", "load">>

\* C3: a second cleanup leaves the state of the first and frees nothing, no
\* font is ever freed twice, and cleanup before any load changes nothing.
C3_CleanupIdempotent ==
    LET once == cleanup(World)
        twice == cleanup(once)
    IN /\ twice.self = once.self
       /\ twice.lv = once.lv
       /\ twice.log.freed = once.log.freed
       /\ ~lv.double_free
       /\ \A i, j \in 1..Len(once.log.freed) :
             once.log.freed[i] = once.log.freed[j] => i = j
       /\ self.container = NoContainer
              => once.self = self /\ once.lv = lv /\ once.log.freed = <<>>
       /\ (hist.clean_runs = 2 /\ last.op \in {"cleanup", "terminate"})
              => last.log.freed = <<>>

C3_Witness ==
    /\ hist.clean_runs = 2
    /\ last.op = "terminate"
    /\ ~last.log.raised

\* _next_face called k times
RECURSIVE NextTimes(_, _)
NextTimes(w, k) == IF k = 0 THEN w ELSE NextTimes(next_face(w), k - 1)

C4_Step ==
    last'.log.nav # None
    => /\ self'.face_names = self.face_names
       /\ last'.log.nav = "next"
              => self'.face_name = Shifted(self.face_names, self.face_name, 1)
       /\ last'.log.nav = "previous"
              => self'.face_name = Shifted(self.face_names, self.face_name, -1)

C4_RoundTrip ==
    Listed(self.face_names, self.face_name)
    => /\ previous_face(next_face(World)).self.face_name = self.face_name
       /\ next_face(previous_face(World)).self.face_name = self.face_name
       /\ NextTimes(World, Len(self.face_names)).self.face_name = self.face_name

\* C4: previous selects index (i-1) mod n and next selects (i+1) mod n of the
\* list fixed at the start, so next then previous, and n nexts, come back.
C4_NavigationWraps == [](C4_RoundTrip) /\ [][C4_Step]_vars

C4_Witness ==
    /\ last.op = "click"
    /\ last.log.nav = "previous"
    /\ self.face_names = <<FaceA, FaceB, FaceC>>
    /\ self.face_name = FaceC

\* C5: a tap the gesture flag does not consume raises exactly one intent:
\* previous in the left 20% of the width, next in the right 20% of the width,
\* exit between them, and the two margins are equally wide.
C5_TapClassification ==
    (last.op = "click" /\ ~last.arg.flagged)
    => LET m == (WIDTH * MARGIN_PERCENT) \div 100
           px == last.arg.x
       IN /\ px < m => last.log.nav = "previous" /\ ~last.log.exit
          /\ px >= WIDTH - m => last.log.nav = "next" /\ ~last.log.exit
          /\ (px >= m /\ px < WIDTH - m) => last.log.nav = None /\ last.log.exit

\* C6: a gesture sets the flag; the tap of the same touch raises no intent
\* and clears it; a tap of a later touch finds the flag clear and raises
\* exactly one intent.
C6_GestureFlagOneShot ==
    /\ self.is_gesture_in_progress <=> touch = "swiping"
    /\ last.op = "gesture" => self.is_gesture_in_progress
    /\ last.op = "click"
       => /\ ~self.is_gesture_in_progress
          /\ last.arg.flagged <=> last.arg.swiped
          /\ last.arg.swiped
                 => /\ last.log.nav = None
                    /\ ~last.log.exit
                    /\ last.log.published = <<>>
          /\ ~last.arg.swiped
                 => /\ last.log.nav # None \/ last.log.exit
                    /\ ~(last.log.nav # None /\ last.log.exit)
                    /\ last.log.nav # None
                           => last.log.published = <<EVENT_CLEANUP, EVENT_LOAD_FACE>>

C6_Witness ==
    /\ last.op = "click"
    /\ last.arg.swiped
    /\ last.arg.flagged
    /\ last.arg.x = 120
    /\ ~last.log.exit

\* The step of _gesture_cb, by direction.
C7_Step ==
    (last'.op = "gesture" /\ Listed(self.face_names, self.face_name))
    => /\ last'.arg = "LEFT"
              => /\ last'.log.nav = "next"
                 /\ self'.face_name = Shifted(self.face_names, self.face_name, 1)
       /\ last'.arg = "RIGHT"
              => /\ last'.log.nav = "previous"
                 /\ self'.face_name = Shifted(self.face_names, self.face_name, -1)
       /\ last'.arg \notin {"LEFT", "RIGHT"}
              => /\ self'.face_name = self.face_name
                 /\ queue' = queue
                 /\ last'.log.published = <<>>
                 /\ last'.log.nav = None

\* C7: a swipe left selects the next face, a swipe right the previous one,
\* and any other gesture neither changes the face name nor publishes an event.
C7_SwipeDirections == [][C7_Step]_vars

C7_Witness ==
    /\ last.op = "gesture"
    /\ last.arg = "LEFT"
    /\ last.log.nav = "next"
    /\ self.face_names = <<FaceA, FaceB, FaceC>>
    /\ self.face_name = FaceB

\* The text a label held before the last evaluated tick.
TextBefore(i) == IF Len(hist.ticks) = 2 THEN hist.ticks[1].resolved[i] ELSE <<>>

LastTick == hist.ticks[Len(hist.ticks)]

\* set_text was called in the last evaluated tick for exactly the labels whose
\* resolved text differs from the text they held.
C8_UpdatedIffChanged ==
    hist.ticks # <<>>
    => \A i \in 1..Len(LastTick.resolved) :
          i \in LastTick.set_text <=> LastTick.resolved[i] # TextBefore(i)

\* How many of the last two evaluated ticks called set_text of label i.
Updates(i) ==
    Cardinality({t \in 1..2 : i \in hist.ticks[t].set_text})

\* C8, as stated: set_text is called iff the resolved text differs from the one
\* before, and two ticks in a row with the same text call it exactly once.
C8_ExactlyOnce ==
    /\ C8_UpdatedIffChanged
    /\ Len(hist.ticks) = 2
       => \A i \in 1..Len(LastTick.resolved) :
             hist.ticks[1].resolved[i] = hist.ticks[2].resolved[i]
             => Updates(i) = 1

\* C8, amended: set_text is called iff the resolved text differs from the one
\* before, and of two ticks in a row with the same text the second never calls
\* it, so the two call it at most once.
C8_RedrawSuppression ==
    /\ C8_UpdatedIffChanged
    /\ Len(hist.ticks) = 2
       => \A i \in 1..Len(LastTick.resolved) :
             hist.ticks[1].resolved[i] = hist.ticks[2].resolved[i]
             => /\ i \notin hist.ticks[2].set_text
                /\ Updates(i) <= 1
    /\ \A i \in 1..Len(self.labels) :
          /\ self.labels[i].lv_label \in DOMAIN lv.children
          /\ lv.children[self.labels[i].lv_label].text = self.labels[i].value

C8_Witness ==
    /\ last.op = "tick"
    /\ Len(hist.ticks) = 2
    /\ \E i \in 1..Len(LastTick.resolved) :
          /\ hist.ticks[1].resolved[i] = hist.ticks[2].resolved[i]
          /\ i \in hist.ticks[1].set_text
          /\ i \notin hist.ticks[2].set_text

\* The font_load calls of the last operation for one path, in order.
CallsFor(path) == SelectSeq(last.log.font_loads, LAMBDA c : c.path = path)

\* The font paths of the labels of a descriptor.
PathsOf(face_config) ==
    {FONTS_PATH \o face_config.labels[i].font :
        i \in {j \in 1..Len(face_config.labels) :
                  face_config.labels[j].font # NoName}}

\* C9, as stated: a load that built every label called font_load exactly once
\* for every font path of the descriptor, whether the call succeeded or not.
C9_OneCallPerPath ==
    (last.op = "load" /\ self.is_face_loaded)
    => \A path \in PathsOf(FaceFiles[last.arg]) : Len(CallsFor(path)) = 1

\* C9, amended: within one load at most one font_load call per path succeeds
\* and none follows it, so a path whose first call succeeds is loaded exactly
\* once; a call that fails caches nothing and the next label with that path
\* calls font_load again.
C9_OneLoadPerCachedPath ==
    last.op = "load"
    => /\ \A path \in {c.path : c \in Range(last.log.font_loads)} :
             LET calls == CallsFor(path)
             IN /\ \A k \in 1..(Len(calls) - 1) : ~calls[k].ok
                /\ calls[Len(calls)].ok <=> path \in DOMAIN self.fonts
                /\ calls[1].ok => Len(calls) = 1
       /\ self.is_face_loaded
              => \A path \in PathsOf(FaceFiles[last.arg]) :
                    /\ Len(CallsFor(path)) >= 1
                    /\ Len(CallsFor(path)) =
                           Cardinality({k \in 1..Len(CallsFor(path)) :
                                           ~CallsFor(path)[k].ok})
                           + (IF path \in DOMAIN self.fonts THEN 1 ELSE 0)

C9_Witness ==
    /\ last.op = "load"
    /\ last.arg = FaceA
    /\ self.is_face_loaded
    /\ Len(self.labels) = 2
    /\ Len(last.log.font_loads) = 1
    /\ last.log.font_loads[1].path = FONTS_PATH \o Font1
    /\ last.log.font_loads[1].ok

\* What a tick handled with the flag set has called: nothing.
C10_Dropped ==
    (last.op = "tick" /\ last.arg.font_loading)
    => /\ ~last.log.sampled
       /\ last.log.resolved = <<>>
       /\ last.log.set_text = {}
       /\ last.log.published = <<>>

\* The step of a tick handled with the flag set only takes it off the queue.
C10_Step ==
    (last'.op = "tick" /\ self.is_font_loading)
    => /\ self' = self
       /\ lv' = lv
       /\ queue' = Tail(queue)
       /\ hist'.ticks = hist.ticks

\* C10: a tick handled while the font loading flag is set samples no clock,
\* resolves no template, changes no label and no widget, and leaves nothing
\* behind in the queue.
C10_NoTickWhileFontLoading == [](C10_Dropped) /\ [][C10_Step]_vars

C10_Witness ==
    /\ last.op = "tick"
    /\ last.arg.font_loading
    /\ self.is_face_loaded

\* C11: a load of a readable descriptor whose version is not "1" creates no
\* widget, sets no background colour or image, calls font_load for no font,
\* leaves the label list and the font cache as they were and leaves the face
\* not loaded: the surface stays as the preceding cleanup left it.
C11_VersionRejected ==
    [][(/\ last'.op = "load"
        /\ FaceFiles[last'.arg].readable
        /\ FaceFiles[last'.arg].version # "1")
       => /\ lv' = lv
          /\ self'.labels = self.labels
          /\ self'.fonts = self.fonts
          /\ last'.log.font_loads = <<>>
          /\ last'.log.image = "none"
          /\ ~self'.is_face_loaded]_vars

\* The version "2" descriptor has been handled after a cleanup: the surface
\* is empty although the descriptor has a colour and a label.
C11_Witness ==
    /\ last.op = "load"
    /\ last.arg = FaceD
    /\ hist.lc = <<"cleanup", "load">>
    /\ FaceFiles[FaceD].has_background
    /\ Len(FaceFiles[FaceD].labels) > 0
    /\ lv.children = EmptyMap
    /\ ~self.is_face_loaded

\* The load handler returned without an exception leaving it.
C12_LoadContained == last.op = "load" => ~last.log.raised

\* A load that failed leaves the face not loaded and the session running,
\* and publishes nothing (no retry).
C12_FailedLoad ==
    (/\ last.op = "load"
     /\ \/ last.log.caught
        \/ FaceFiles[last.arg].version # "1")
    => /\ ~self.is_face_loaded
       /\ pc = "run"
       /\ last.log.published = <<>>

\* A tick is handled without an exception, whatever the last load did.
C12_TickContained == last.op = "tick" => ~last.log.raised

\* A previous/next intent while the face is not loaded selects the adjacent
\* catalog entry and publishes Cleanup and then LoadFace.
C12_NavigationAfterFailure ==
    (/\ ~self.is_face_loaded
     /\ last'.op \in {"click", "gesture"}
     /\ last'.log.nav # None)
    => /\ ~last'.log.raised
       /\ last'.log.published = <<EVENT_CLEANUP, EVENT_LOAD_FACE>>
       /\ self'.face_name =
             Shifted(self.face_names, self.face_name,
                     IF last'.log.nav = "next" THEN 1
                     ELSE Len(self.face_names) - 1)
       /\ pc' = "run"

\* C12: no error of a load leaves the load handler; after a failed load the
\* face is not loaded, the session is running, nothing is published by the
\* load, ticks are handled without an exception and every previous/next
\* intent publishes Cleanup then LoadFace for the adjacent catalog entry.
C12_LoadErrorsContained ==
    /\ [](C12_LoadContained /\ C12_FailedLoad /\ C12_TickContained)
    /\ [][C12_NavigationAfterFailure]_vars

\* A navigation right after a load whose except block ran.
C12_Witness ==
    /\ last.op \in {"click", "gesture"}
    /\ last.log.nav # None
    /\ hist.lc # <<>>
    /\ hist.lc[Len(hist.lc)] = "load"
    /\ ~self.is_face_loaded

\* Every entry of the descriptor's labels array is an object.
WellFormed(face_config) ==
    \A i \in 1..Len(face_config.labels) : face_config.labels[i].is_dict

ImageWidgets == {i \in DOMAIN lv.children : lv.children[i].kind = "img"}

\* C13: when image_helper.show fails for the background image of a version
\* "1" descriptor, no image container is installed, the labels are children
\* of the screen itself, every label of the descriptor is created and the
\* face is loaded.
C13_ImageFailureTolerated ==
    (/\ last.op = "load"
     /\ last.log.image = "failed")
    => LET face_config == FaceFiles[last.arg]
       IN /\ face_config.version = "1"
          /\ ImageWidgets = {}
          /\ self.container = Screen
          /\ \A i \in LabelWidgets : lv.children[i].parent = Screen
          /\ face_config.background.color # None
                 => lv.bg_color = face_config.background.color
          /\ WellFormed(face_config)
                 => /\ Len(self.labels) = Len(face_config.labels)
                    /\ Cardinality(LabelWidgets) = Len(face_config.labels)
                    /\ \A i \in 1..Len(self.labels) :
                          self.labels[i].lv_label \in LabelWidgets
                    /\ self.is_face_loaded

\* The descriptor with an image and two labels has been loaded with the
\* image failing.
C13_Witness ==
    /\ last.op = "load"
    /\ last.log.image = "failed"
    /\ FaceFiles[last.arg].background.image # None
    /\ Len(self.labels) = 2
    /\ self.is_face_loaded

\* The font_load calls of the last operation that raised.
FailedCalls ==
    {i \in 1..Len(last.log.font_loads) : ~last.log.font_loads[i].ok}

\* The label of a failed font_load call exists with the default font and is
\* in the label list; its path is in the cache only if a call of the same
\* load succeeded for it.
C14_FailedLabelKept ==
    last.op = "load"
    => \A i \in FailedCalls :
          LET call == last.log.font_loads[i]
          IN /\ call.label \in LabelWidgets
             /\ lv.children[call.label].font = NoFont
             /\ \E k \in 1..Len(self.labels) : self.labels[k].lv_label = call.label
             /\ call.path \in DOMAIN self.fonts
                   <=> \E j \in 1..Len(last.log.font_loads) :
                          /\ last.log.font_loads[j].path = call.path
                          /\ last.log.font_loads[j].ok
             /\ \A j \in 1..i : last.log.font_loads[j].path = call.path
                                   => ~last.log.font_loads[j].ok

\* A load in which font_load raised builds what the same load builds when no
\* font_load raises: the same widgets with the same parents, the same label
\* list, the same fonts on the labels whose call did not raise, and the same
\* outcome, which is loaded when every label entry is an object.
C14_SameAsWithoutFailure ==
    (/\ last'.op = "load"
     /\ \E i \in 1..Len(last'.log.font_loads) : ~last'.log.font_loads[i].ok)
    => LET reference == load_face(Taken, last'.log.image # "failed", {})
           failed == {last'.log.font_loads[i].label :
                         i \in {j \in 1..Len(last'.log.font_loads) :
                                   ~last'.log.font_loads[j].ok}}
       IN /\ self'.is_face_loaded = reference.self.is_face_loaded
          /\ WellFormed(FaceFiles[last'.arg]) => self'.is_face_loaded
          /\ Len(self'.labels) = Len(reference.self.labels)
          /\ \A k \in 1..Len(self'.labels) :
                /\ self'.labels[k].lv_label = reference.self.labels[k].lv_label
                /\ self'.labels[k].text = reference.self.labels[k].text
          /\ DOMAIN lv'.children = DOMAIN reference.lv.children
          /\ \A id \in DOMAIN lv'.children :
                /\ lv'.children[id].kind = reference.lv.children[id].kind
                /\ lv'.children[id].parent = reference.lv.children[id].parent
                /\ id \notin failed
                      => lv'.children[id].font.path =
                            reference.lv.children[id].font.path
          /\ lv'.bg_color = reference.lv.bg_color

\* C14: a font_load failure is local to the label it was called for: the
\* label is created and registered with the default font, nothing is cached
\* by the failed call, every other label is built as without the failure and
\* the load of a descriptor whose label entries are objects ends loaded.
C14_FontFailureLocal ==
    /\ [](C14_FailedLabelKept)
    /\ [][C14_SameAsWithoutFailure]_vars

\* font_load raised for the first label and succeeded for the second, which
\* names the same font: both labels exist and the face is loaded.
C14_Witness ==
    /\ last.op = "load"
    /\ Len(last.log.font_loads) = 2
    /\ ~last.log.font_loads[1].ok
    /\ last.log.font_loads[2].ok
    /\ Len(self.labels) = 2
    /\ lv.children[self.labels[1].lv_label].font = NoFont
    /\ lv.children[self.labels[2].lv_label].font # NoFont
    /\ self.is_face_loaded

\* After a cleanup that follows a load the label list, the font cache, the
\* heap of font handles and the screen are empty.
C15_CleanupEmpties ==
    (/\ last.op = "cleanup"
     /\ hist.lc = <<"load", "cleanup">>)
    => /\ self.labels = <<>>
       /\ self.fonts = EmptyMap
       /\ lv.heap = {}
       /\ lv.children = EmptyMap

\* The colour a descriptor sets when it is loaded, None when it sets none.
OwnColor(face_config) ==
    IF /\ face_config.readable
       /\ face_config.version = "1"
       /\ face_config.has_background
    THEN face_config.background.color
    ELSE None

\* When the next face is shown after a cleanup, the background colour is the
\* one of its own descriptor, or the default when it names none, and an
\* image widget is there only when its descriptor names an image.
C15_NoOldBackground ==
    (/\ last.op = "load"
     /\ hist.lc = <<"cleanup", "load">>)
    => /\ lv.bg_color = OwnColor(FaceFiles[last.arg])
       /\ ImageWidgets # {} => last.log.image = "shown"

\* After a load the live font handles are at most the distinct font paths
\* of the loaded descriptor.
C15_HandlesBounded ==
    last.op = "load"
    => Cardinality(lv.heap) <= Cardinality(PathsOf(FaceFiles[last.arg]))

\* C15: nothing of a face outlives its load/cleanup cycle: after a cleanup
\* that follows a load the label list, the font cache, the font heap and the
\* screen are empty; no background of the old face is in effect when the
\* next face is shown; the live font handles never exceed the distinct font
\* paths of the face.
C15_NothingOutlives ==
    /\ C15_CleanupEmpties
    /\ C15_NoOldBackground
    /\ C15_HandlesBounded

\* What terminate does to the stored record: it saves the face name exactly
\* when the name differed from the stored one, and afterwards the stored
\* name is the face name.
C16_Step ==
    last'.op = "terminate"
    => /\ (last'.log.saved # <<>>)
             <=> (self.face_name # get_last_face_name(World))
       /\ last'.log.saved # <<>> => last'.log.saved = <<self.face_name>>
       /\ (IF config'.present THEN config'.face ELSE NoName) = self'.face_name

\* C16: terminate persists the face name if and only if it differs from the
\* persisted name, and after terminate the persisted name is the face name.
C16_TerminatePersists == [][C16_Step]_vars

\* After terminate the tick task is not running and the session holds no
\* label instance, no font handle and no widget.
C17_NothingHeld ==
    pc = "terminated"
    => /\ self.loop_task # "running"
       /\ self.labels = <<>>
       /\ self.fonts = EmptyMap
       /\ lv.heap = {}
       /\ lv.children = EmptyMap

\* No step after terminate publishes an event or handles one.
C17_NoStepAfter ==
    pc = "terminated"
    => /\ queue' = queue
       /\ self' = self
       /\ lv' = lv

Persisted == IF config.present THEN config.face ELSE NoName

\* C18, as stated: after each previous/next navigation the persisted
\* last-used name is the newly selected face name.
C18_SavedOnNavigation ==
    (/\ last.op \in {"click", "gesture"}
     /\ last.log.nav # None)
    => Persisted = self.face_name

\* Only run and terminate write the record: run writes the first catalog
\* entry and terminate the current face name.
C18_Writers ==
    (config' # config \/ last'.log.saved # <<>>)
    => \/ /\ last'.op = "run"
          /\ last'.log.saved = <<self'.face_names[1]>>
          /\ config' = StoredConfig(self'.face_names[1])
       \/ /\ last'.op = "terminate"
          /\ last'.log.saved = <<self.face_name>>
          /\ config' = StoredConfig(self.face_name)

\* A navigation changes the face name and leaves the record as it was.
C18_NavigationKeepsRecord ==
    (/\ last'.op \in {"click", "gesture"}
     /\ last'.log.nav # None)
    => /\ config' = config
       /\ last'.log.saved = <<>>

\* C18, amended: the persisted record is written only by run (the first
\* catalog entry, when the persisted name is not in the catalog) and by
\* terminate (the current face name); a previous/next navigation does not
\* write it.
C18_SavedAtStartAndEnd ==
    /\ [][C18_Writers]_vars
    /\ [][C18_NavigationKeepsRecord]_vars

\* A navigation selected a face other than the persisted one.
C18_Witness ==
    /\ last.op \in {"click", "gesture"}
    /\ last.log.nav # None
    /\ config.present
    /\ Listed(self.face_names, config.face)
    /\ config.face # self.face_name

\* run with an empty catalog has returned: nothing was published, no tick
\* task exists, the stored record was not read or written and nothing was
\* built.
C19_Returned ==
    (/\ last.op = "run"
     /\ self.face_names = <<>>)
    => /\ pc = "returned"
       /\ ~last.log.raised
       /\ last.log.published = <<>>
       /\ queue = <<>>
       /\ self.loop_task = None
       /\ ~last.log.read_config
       /\ last.log.saved = <<>>
       /\ lv.children = EmptyMap
       /\ lv.heap = {}
       /\ self.labels = <<>>
       /\ self.fonts = EmptyMap

\* run with an empty catalog changes nothing.
C19_Step ==
    (/\ last'.op = "run"
     /\ self.face_names = <<>>)
    => /\ self' = self
       /\ lv' = lv
       /\ queue' = queue
       /\ config' = config

\* C19: with an empty catalog run ends at once: no LoadFace is published, no
\* tick task is created, no widget or font is created and the persisted
\* record is neither read nor written.
C19_EmptyCatalog ==
    /\ [](C19_Returned)
    /\ [][C19_Step]_vars

\* run has returned on an empty catalog while a record was stored.
C19_Witness ==
    /\ last.op = "run"
    /\ self.face_names = <<>>
    /\ pc = "returned"
    /\ config.present

\* The value the claim gives to placeholder k: digits by place value, names
\* by weekday (0 = Monday) and month (1 = January), the battery percent in
\* decimal, nothing when there is no PMU.
Digit(n) == DigitChars[(n % 10) + 1]

TwoDigits(n) == <<Digit(n \div 10), Digit(n)>>

Decimal(n) ==
    IF n < 10 THEN <<Digit(n)>>
    ELSE IF n < 100 THEN TwoDigits(n)
    ELSE <<Digit(n \div 100), Digit(n \div 10), Digit(n)>>

TokenValue(k, time_tuple, battery) ==
    CASE k = 1 -> TwoDigits(time_tuple[1] \div 100) \o TwoDigits(time_tuple[1])
      [] k \in 2..6 -> TwoDigits(time_tuple[k])
      [] k = 7 -> WEEK_DAYS[time_tuple[7] + 1]
      [] k = 8 -> WEEK_DAYS_SHORT[time_tuple[7] + 1]
      [] k = 9 -> MONTHS[time_tuple[2]]
      [] k = 10 -> MONTHS_SHORT[time_tuple[2]]
      [] k = 11 -> IF battery = NoPmu THEN <<>> ELSE Decimal(battery)

\* The placeholder keys that occur in text at position i.
KeysAt(text, i) ==
    {k \in 1..Len(PlaceholderKeys) : MatchAt(text, PlaceholderKeys[k], i)}

\* The reference substitution: one pass over the template, every occurrence
\* of a key replaced by its value, every other character kept in place.
RECURSIVE SubstituteFrom(_, _, _, _)
SubstituteFrom(text, i, time_tuple, battery) ==
    IF i > Len(text) THEN <<>>
    ELSE IF KeysAt(text, i) # {}
         THEN LET k == CHOOSE key \in KeysAt(text, i) : TRUE
              IN TokenValue(k, time_tuple, battery)
                    \o SubstituteFrom(text, i + Len(PlaceholderKeys[k]),
                                      time_tuple, battery)
         ELSE <<text[i]>> \o SubstituteFrom(text, i + 1, time_tuple, battery)

Substitute(text, time_tuple, battery) == SubstituteFrom(text, 1, time_tuple, battery)

\* The loop of _update_labels with the keys taken in the given order.
RECURSIVE ResolveInOrder(_, _, _, _)
ResolveInOrder(text, order, time_tuple, battery) ==
    IF order = <<>> THEN text
    ELSE LET k == Head(order)
         IN ResolveInOrder(
                IF Contains(text, PlaceholderKeys[k])
                THEN Replace(text, PlaceholderKeys[k], Transform(k, time_tuple, battery))
                ELSE text,
                Tail(order), time_tuple, battery)

\* The keys from position 1 + by on, round the table, forwards or backwards.
Rotated(by, backwards) ==
    [i \in 1..Len(PlaceholderKeys) |->
        LET at == ((i - 1 + by) % Len(PlaceholderKeys)) + 1
        IN IF backwards THEN Len(PlaceholderKeys) + 1 - at ELSE at]

\* The source order, its reverse, and two rotations of each: every two keys
\* are taken in both orders.
Orders ==
    {Rotated(by, backwards) : by \in {0, 4, 8}, backwards \in BOOLEAN}

StartsAlphanumeric(name) ==
    \/ name[1] \in Letters
    \/ name[1] \in {"0", "1", "2", "3", "4", "5", "6", "7", "8", "9"}

\* The catalog holds exactly the directories whose name starts with a letter
\* or digit, each once, in ascending order of the names; the listing with a
\* name starting with "_", a name starting with a digit and a name that is a
\* prefix of another gives "10", "c", "c1".
C21_Catalog ==
    LET names == self.face_names
    IN /\ {names[i] : i \in 1..Len(names)}
             = {d \in hist.dirs : StartsAlphanumeric(d)}
       /\ \A i, j \in 1..Len(names) :
             i < j => /\ names[i] # names[j]
                      /\ StrLess(names[i], names[j])
       /\ hist.dirs = {FaceE, Hidden, FaceC, FaceD}
             => names = << <<"1", "0">>, <<"c">>, <<"c", "1">> >>
       /\ hist.dirs = {FaceC, FaceA, FaceB}
             => names = << <<"a">>, <<"b">>, <<"c">> >>

\* C21: the catalog is exactly the directory names that start with a letter
\* or digit, sorted, without duplicates, and no step of the session changes
\* it.
C21_CatalogFixed ==
    /\ [](C21_Catalog)
    /\ [][self'.face_names = self.face_names /\ hist'.dirs = hist.dirs]_vars

\* A session over the listing with a hidden directory has loaded, cleaned
\* up, ticked and navigated, and has been terminated.
C21_Witness ==
    /\ Hidden \in hist.dirs
    /\ Len(self.face_names) = 3
    /\ pc = "terminated"
    /\ hist.lc = <<"load", "cleanup">>
    /\ ~last.log.raised
    /\ self.face_name # self.face_names[1]

\* The file name ends in ".py" or ".json".
PyOrJson(file_name) ==
    \/ endswith(file_name, <<".", "p", "y">>)
    \/ endswith(file_name, <<".", "j", "s", "o", "n">>)

\* C22: when the font tool has finished, a font file is removed if and only
\* if its name occurs in no file under the search path whose name ends in
\* ".py" or ".json".
C22_RemovedIffUnused ==
    tool.pc = "done"
    => \A font_file \in {name \in FontsDir : endswith(name, FontSuffix)} :
          font_file \notin tool.fonts_dir
             <=> ~\E i \in 1..Len(tool.walked) :
                    /\ PyOrJson(tool.walked[i].file_name)
                    /\ Contains(tool.walked[i].file_content, font_file)

\* The last of the loads and cleanups that ran, None before the first.
LastCycle == IF hist.lc = <<>> THEN None ELSE hist.lc[Len(hist.lc)]

\* Loaded is false before the first load.
C23_FalseBeforeLoad == LastCycle = None => ~self.is_face_loaded

\* Loaded is false after a load that failed.
C23_FalseAfterFailure ==
    (/\ last.op = "load"
     /\ \/ last.log.caught
        \/ FaceFiles[last.arg].version # "1")
    => ~self.is_face_loaded

\* Loaded is false once cleanup has run, until the next load.
C23_FalseAfterCleanup == LastCycle = "cleanup" => ~self.is_face_loaded

\* Loaded is true only while the labels of the loaded descriptor are built.
C23_TrueOnlyWithWidgets ==
    self.is_face_loaded
    => /\ LastCycle = "load"
       /\ \A i \in 1..Len(self.labels) :
             self.labels[i].lv_label \in DOMAIN lv.children

\* A tick evaluates the labels only when the face is loaded.
C23_RefreshOnlyLoaded ==
    (last.op = "tick" /\ last.log.sampled) => self.is_face_loaded

\* C23: the Loaded flag is false before the first load, after a failed load
\* and from a cleanup until the next successful load, true only while the
\* widgets of a loaded face are on the surface, and a tick refreshes the
\* labels only when it is true.
C23_LoadedReflectsState ==
    /\ C23_FalseBeforeLoad
    /\ C23_FalseAfterFailure
    /\ C23_FalseAfterCleanup
    /\ C23_TrueOnlyWithWidgets
    /\ C23_RefreshOnlyLoaded

\* Every state is one between two handlers: no load is in progress in it.
C24_FalseBetweenHandlers == ~self.is_font_loading

\* The face is loaded only with the font-loading flag false.
C24_LoadedImpliesNotLoading == self.is_face_loaded => ~self.is_font_loading

\* C24: the font-loading flag is false whenever no load is in progress, also
\* after a load that failed during label construction and after a later
\* load of a descriptor without labels; so it is false whenever the face is
\* loaded.
C24_FontLoadingOnlyDuringLoad ==
    /\ C24_FalseBetweenHandlers
    /\ C24_LoadedImpliesNotLoading

\* No Cleanup or LoadFace is waiting in the queue.
Settled ==
    \A i \in 1..Len(queue) : queue[i] \notin {EVENT_CLEANUP, EVENT_LOAD_FACE}

\* The current face name is the start name shifted by nexts minus previouses.
C25_NameIsShiftedStart ==
    pc = "run"
    => self.face_name = Shifted(self.face_names, hist.start, hist.shift)

\* Once the published cleanups and loads are handled, the last load was for
\* the current face name.
C25_FinalFace ==
    (pc = "run" /\ Settled) => hist.built = self.face_name

\* A navigation publishes one Cleanup and one LoadFace.
C25_OnePair ==
    last'.log.nav # None
    => /\ Len(SelectSeq(last'.log.published, LAMBDA e : e = EVENT_CLEANUP)) = 1
       /\ Len(SelectSeq(last'.log.published, LAMBDA e : e = EVENT_LOAD_FACE)) = 1

\* A load handled after another is for a catalog entry adjacent to the one
\* the load before it was for.
C25_Adjacent ==
    (last'.op = "load" /\ hist.built # NoName)
    => \/ hist'.built = Shifted(self.face_names, hist.built, 1)
       \/ hist'.built = Shifted(self.face_names, hist.built, Len(self.face_names) - 1)

\* C25: after any navigations the current face name is the start name
\* shifted by nexts minus previouses; once the published cleanups and loads
\* are handled the face built is the current one; each navigation publishes
\* one cleanup and one load, and each load builds the entry adjacent to the
\* face built before it.
C25_NavigationSettles ==
    /\ [](C25_NameIsShiftedStart /\ C25_FinalFace)
    /\ [][C25_OnePair /\ C25_Adjacent]_vars

\* C26: every font on a widget of the screen is a live handle held in the
\* font cache under its path, every label of the label list has its widget
\* on the screen, no font is freed while a widget has it or freed twice, and
\* no tick sets the text of a widget that is gone.
C26_NoUseAfterFree ==
    /\ \A id \in DOMAIN lv.children :
          lv.children[id].font # NoFont
             => /\ lv.children[id].font \in lv.heap
                /\ lv.children[id].font.path \in DOMAIN self.fonts
                /\ self.fonts[lv.children[id].font.path] = lv.children[id].font
    /\ \A i \in 1..Len(self.labels) :
          /\ self.labels[i].lv_label \in DOMAIN lv.children
          /\ lv.children[self.labels[i].lv_label].kind = "label"
    /\ ~last.log.freed_in_use
    /\ ~lv.double_free
    /\ ~lv.bad_access

\* A cleanup has destroyed the labels of a loaded face and freed the font
\* they had.
C26_Witness ==
    /\ last.op = "cleanup"
    /\ hist.lc = <<"load", "cleanup">>
    /\ hist.built = FaceA
    /\ Len(last.log.freed) = 1
    /\ lv.heap = {}
    /\ lv.children = EmptyMap

\* run over a catalog with entries: the stored name when it is in the
\* catalog, and then nothing is written; else the first entry, which is
\* written.
C27_Start ==
    (last'.op = "run" /\ self.face_names # <<>>)
    => IF config.present /\ Listed(self.face_names, config.face)
       THEN /\ self'.face_name = config.face
            /\ last'.log.saved = <<>>
            /\ config' = config
       ELSE /\ self'.face_name = self.face_names[1]
            /\ last'.log.saved = <<self.face_names[1]>>
            /\ config' = StoredConfig(self.face_names[1])

\* After run the face name is in the catalog and no input handler raises.
C27_Member ==
    hist.start # NoName
    => /\ Listed(self.face_names, self.face_name)
       /\ last.op \in {"click", "gesture"} => ~last.log.raised

\* C27: with a catalog that has entries run selects the persisted name when
\* it is in the catalog, without writing the store, and else the first entry,
\* which it persists; from then on the face name is in the catalog and
\* previous/next find its index.
C27_NameInCatalog ==
    /\ [](C27_Member)
    /\ [][C27_Start]_vars

\* A session started on the persisted name, which is not the first entry,
\* has navigated round the end of the catalog.
C27_Witness ==
    /\ hist.start = FaceB
    /\ self.face_names = <<FaceA, FaceB, FaceC>>
    /\ config = StoredConfig(FaceB)
    /\ last.log.nav = "next"
    /\ self.face_name = FaceA

\* C28: terminate returns without an exception from every state of the
\* session: before run, after run returned on an empty catalog, after a
\* failed load and with navigation events pending.
C28_TerminateCompletes ==
    last.op = "terminate" => ~last.log.raised

====
